---------------------------- MODULE Spec2Model ----------------------------
(***************************************************************************)
(* Model of the watch face of src/components/Watchface.tsx and of the      *)
(* page controls of src/app/page.tsx.                                      *)
(*                                                                         *)
(* Units.  Wall-clock time and Instants are milliseconds.  A battery       *)
(* percentage is held in units of 1/10000 percent (80% = 800000), so the   *)
(* per-tick drain 0.0007 is 7 units; NaN is a value of its own.  Angles     *)
(* are tenths of a degree.  Math.random() is a per-mille draw r/1000.      *)
(* Local time is taken to be UTC and every day has 24 hours.               *)
(***************************************************************************)
EXTENDS Integers, Sequences, FiniteSets, TLC

VARIABLES
    phase,        \* "mounted" | "reloading" (reset clicked, page not yet replaced) | "unmounted"
    time,         \* Date.now(), ms
    now,          \* useNow state: the Instant of the last clock tick, ms
    steps,        \* useSimulatedSteps(now) of the last render
    angles,       \* handAngle(now) of the last render
    battery,      \* useSimulatedBattery state
    storage,      \* localStorage: batteryPercent, batteryUpdatedAt
    hr,           \* useSimulatedHeartRate state
    hrSteps,      \* heart-rate steps taken since the view was mounted
    data,         \* useWeather state: the weather snapshot
    attempts,     \* the runs of the useWeather effect that have not settled
    requests,     \* the minute of the latest run and the runs started in it
    lastFetch,    \* the response of the fetch that settled last
    timers,       \* the three setInterval timers
    hasGeo,       \* navigator.geolocation is available
    resets        \* clicks on "Reset Simulated Battery" so far

vars == <<phase, time, now, steps, angles, battery, storage, hr, hrSteps,
          data, attempts, requests, lastFetch, timers, hasGeo, resets>>

-----------------------------------------------------------------------------
(* Bounds *)

MaxAdvances == 4        \* quanta of wall-clock time a view run may see
MaxResets == 1          \* clicks on "Reset Simulated Battery"
MaxDays == 1            \* days covered by the day walk
MaxHrSteps == 60        \* heart-rate steps of the heart-rate walk

(* Program constants *)

ClockPeriod == 1000
BatteryPeriod == 1000
HrPeriod == 1500
Quantum == HrPeriod - ClockPeriod       \* model time step: gcd of the periods
MsPerMinute == 60000
MsPerHour == 3600000
MsPerDay == 86400000
Goal == 10000
HrStart == 72
HrMin == 58
HrMax == 140
Unit == 10000                   \* battery units per percent
BatteryTop == 100 * Unit        \* 100 percent
TickDrain == 7                  \* 0.0007 percent
MsPerUnit == (MsPerMinute * 100) \div (4 * Unit)   \* 0.04 percent per minute
MountTime == 25000 * MsPerMinute - ClockPeriod    \* a second before a new minute

NaN == -999999999

\* Math.random() draws, per mille: the least, one in between and the
\* greatest (heart-rate steps of -2, -1 and +2; baselines 60, 70 and 100)
RandomDraws == {0, 250, 999}

-----------------------------------------------------------------------------
(* Numbers *)

Max(a, b) == IF a >= b THEN a ELSE b
Min(a, b) == IF a <= b THEN a ELSE b

\* Math.max / Math.min: NaN if either argument is NaN
MathMax(a, b) == IF a = NaN \/ b = NaN THEN NaN ELSE Max(a, b)
MathMin(a, b) == IF a = NaN \/ b = NaN THEN NaN ELSE Min(a, b)

clampNoMax(value, min, max) == MathMax(min, value)
clamp(value, min, max) == MathMin(max, MathMax(min, value))

-----------------------------------------------------------------------------
(* Strings are sequences of one-character strings.                         *)

DigitChars == <<"0", "1", "2", "3", "4", "5", "6", "7", "8", "9">>
IsDigit(c) == \E d \in 1..10 : DigitChars[d] = c
DigitVal(c) == (CHOOSE d \in 1..10 : DigitChars[d] = c) - 1

RECURSIVE NatToString(_)
NatToString(n) ==
    IF n < 10 THEN <<DigitChars[n + 1]>>
    ELSE NatToString(n \div 10) \o <<DigitChars[(n % 10) + 1]>>

\* the k fractional digits of f (f < 10^k), trailing zeros dropped
RECURSIVE FracToString(_, _)
FracToString(f, k) ==
    IF f = 0 \/ k = 0 THEN <<>>
    ELSE LET p == IF k = 4 THEN 1000 ELSE IF k = 3 THEN 100 ELSE IF k = 2 THEN 10 ELSE 1
         IN  <<DigitChars[(f \div p) + 1]>> \o FracToString(f % p, k - 1)

\* String(x) of a battery value (never negative) or NaN
BatteryToString(u) ==
    IF u = NaN THEN <<"N", "a", "N">>
    ELSE IF u % Unit = 0 THEN NatToString(u \div Unit)
    ELSE NatToString(u \div Unit) \o <<".">> \o FracToString(u % Unit, 4)

\* String(Date.now())
TimeToString(t) == NatToString(t)

\* length of the longest prefix of s, from position i, made of digits
RECURSIVE DigitRun(_, _)
DigitRun(s, i) ==
    IF i > Len(s) THEN 0
    ELSE IF IsDigit(s[i]) THEN 1 + DigitRun(s, i + 1)
    ELSE 0

RECURSIVE DigitsValue(_, _, _)
DigitsValue(s, i, n) ==
    IF n = 0 THEN 0
    ELSE DigitsValue(s, i, n - 1) * 10 + DigitVal(s[i + n - 1])

\* the first four fractional digits, as units
RECURSIVE FracValue(_, _, _, _)
FracValue(s, i, n, k) ==
    IF k = 0 THEN 0
    ELSE (IF n > 0 THEN DigitVal(s[i]) ELSE 0)
             * (IF k = 4 THEN 1000 ELSE IF k = 3 THEN 100 ELSE IF k = 2 THEN 10 ELSE 1)
         + FracValue(s, i + 1, Max(n - 1, 0), k - 1)

\* parseInt(s, 10): optional sign, then the longest run of digits; NaN if none
parseInt(s) ==
    LET neg == Len(s) > 0 /\ s[1] = "-"
        st == IF Len(s) > 0 /\ s[1] \in {"-", "+"} THEN 2 ELSE 1
        n == DigitRun(s, st)
    IN  IF n = 0 THEN NaN
        ELSE IF neg THEN 0 - DigitsValue(s, st, n) ELSE DigitsValue(s, st, n)

\* parseFloat(s): optional sign, digits, optional fraction; NaN if no digit
parseFloat(s) ==
    LET neg == Len(s) > 0 /\ s[1] = "-"
        st == IF Len(s) > 0 /\ s[1] \in {"-", "+"} THEN 2 ELSE 1
        n == DigitRun(s, st)
        dot == st + n <= Len(s) /\ s[st + n] = "."
        fn == IF dot THEN DigitRun(s, st + n + 1) ELSE 0
        mag == DigitsValue(s, st, n) * Unit
               + (IF dot THEN FracValue(s, st + n + 1, fn, 4) ELSE 0)
    IN  IF n = 0 /\ fn = 0 THEN NaN
        ELSE IF neg THEN 0 - mag ELSE mag

\* a string is truthy unless it is empty; null (no value) is falsy
Null == {}
Some(v) == {v}
Get(o) == CHOOSE v \in o : TRUE
Truthy(o) == o # Null /\ Len(Get(o)) > 0

-----------------------------------------------------------------------------
(* useSimulatedBattery *)

\* Math.round(60 + Math.random() * 40), in units
FreshBaseline(r) == ((60000 + 40 * r + 500) \div 1000) * Unit

\* Math.round(drained * 10) / 10 where drained = d150 / 150 units
RoundToTenth(d150) == ((d150 + 75000) \div 150000) * 1000

\* the useState initialiser
InitialBattery(st, t, r) ==
    LET baseline == IF Truthy(st.batteryPercent)
                    THEN parseFloat(Get(st.batteryPercent))
                    ELSE FreshBaseline(r)
        last == IF Truthy(st.batteryUpdatedAt)
                THEN parseInt(Get(st.batteryUpdatedAt))
                ELSE t
    IN  IF baseline = NaN \/ last = NaN THEN NaN
        ELSE RoundToTenth(Max(0, baseline * MsPerUnit - (t - last)))

\* the updater of the decay interval: the next value and what it persists
DecayNext(b) == clamp(IF b = NaN THEN NaN ELSE b - TickDrain, 0, BatteryTop)

Persist(b, t) ==
    [batteryPercent |-> Some(BatteryToString(b)),
     batteryUpdatedAt |-> Some(TimeToString(t))]

-----------------------------------------------------------------------------
(* useSimulatedSteps and handAngle *)

getHours(t) == (t \div MsPerHour) % 24
getMinutes(t) == (t \div MsPerMinute) % 60
getSeconds(t) == (t \div 1000) % 60
StartOfDay(t) == t - (t % MsPerDay)
DayOf(t) == t \div MsPerDay

\* 10000 * sin(k * 15 degrees), k in 0..6
SinQuarter == <<0, 2588, 5000, 7071, 8660, 9659, 10000>>

\* 10000 * Math.sin(k / 24 * Math.PI * 2), k in -6..17
Sin24(k) ==
    LET a == (k + 24) % 24
    IN  IF a <= 6 THEN SinQuarter[a + 1]
        ELSE IF a <= 12 THEN SinQuarter[12 - a + 1]
        ELSE IF a <= 18 THEN 0 - SinQuarter[a - 12 + 1]
        ELSE 0 - SinQuarter[24 - a + 1]

\* 100000 * (0.7 + 0.6 * circadian), circadian = 0.5 + 0.5 * sin
Weight(t) == 100000 + 3 * Sin24(getHours(t) - 6)

\* Math.round(goal * dayProgress * weight), clamped to [0, goal]
useSimulatedSteps(t) ==
    LET ms == Max(0, Min(t - StartOfDay(t), MsPerDay))
        q == ms \div 8640
        r == ms % 8640
        w == Weight(t)
    IN  clamp((q * w + 50000 + ((r * w) \div 8640)) \div 100000, 0, Goal)

handAngleNoWrap(t) ==
    [hour |-> 300 * getHours(t) + 5 * getMinutes(t),
     minute |-> 60 * getMinutes(t) + getSeconds(t),
     second |-> 60 * getSeconds(t)]

handAngle(t) ==
    [hour |-> 300 * (getHours(t) % 12) + 5 * getMinutes(t),
     minute |-> 60 * getMinutes(t) + getSeconds(t),
     second |-> 60 * getSeconds(t)]

-----------------------------------------------------------------------------
(* useSimulatedHeartRate *)

\* Math.round(prev + (r / 1000 - 0.5) * 4)
HrRound(prev, r) == (1000 * prev + 4 * r - 2000 + 500) \div 1000

HeartRateStepNoMax(prev, r) == clampNoMax(HrRound(prev, r), HrMin, HrMax)
HeartRateStep(prev, r) == clamp(HrRound(prev, r), HrMin, HrMax)

-----------------------------------------------------------------------------
(* useWeather *)

\* JSON values of the response body
JsonNum(n) == [type |-> "number", n |-> n, s |-> <<>>]
JsonStr(s) == [type |-> "string", n |-> 0, s |-> s]
Undefined == [type |-> "undefined", n |-> 0, s |-> <<>>]

JsonTruthy(v) ==
    \/ v.type = "number" /\ v.n # 0
    \/ v.type = "string" /\ Len(v.s) > 0

\* j.current.temperature_2m (tenths of a degree), j.current.weather_code,
\* j.daily.sunrise[0], j.daily.sunset[0]
BodyA == [temperature_2m |-> JsonNum(184), weather_code |-> JsonNum(3),
          sunrise0 |-> JsonStr(<<"0", "4", ":", "4", "5">>),
          sunset0 |-> JsonStr(<<"2", "0", ":", "1", "5">>)]
BodyB == [temperature_2m |-> JsonNum(-21), weather_code |-> JsonNum(61),
          sunrise0 |-> JsonStr(<<"0", "4", ":", "4", "6">>),
          sunset0 |-> JsonStr(<<"2", "0", ":", "1", "4">>)]
BodyEmpty == [temperature_2m |-> Undefined, weather_code |-> Undefined,
              sunrise0 |-> Undefined, sunset0 |-> Undefined]
BodyNoDaily == [temperature_2m |-> JsonNum(184), weather_code |-> JsonNum(3),
                sunrise0 |-> Undefined, sunset0 |-> Undefined]

NoBody == BodyEmpty
NetworkError == [kind |-> "networkError", body |-> NoBody]   \* fetch rejects
HttpError == [kind |-> "httpError", body |-> NoBody]         \* res.ok is false
BadJson == [kind |-> "badJson", body |-> NoBody]             \* res.json() rejects
Json(b) == [kind |-> "json", body |-> b]
NoResponse == [kind |-> "none", body |-> NoBody]

CompleteBodies == {BodyA, BodyB}
IncompleteBodies == {BodyEmpty, BodyNoDaily}
Responses == {NetworkError, HttpError, BadJson}
                 \cup {Json(b) : b \in CompleteBodies \cup IncompleteBodies}

\* the four constants computed from j in fetchWeather
Snapshot(j) ==
    [temperatureC |-> IF j.temperature_2m.type = "number"
                      THEN Some(j.temperature_2m.n) ELSE Null,
     weatherCode |-> IF j.weather_code.type = "number"
                     THEN Some(j.weather_code.n) ELSE Null,
     sunrise |-> IF JsonTruthy(j.sunrise0) THEN Some(j.sunrise0.s) ELSE Null,
     sunset |-> IF JsonTruthy(j.sunset0) THEN Some(j.sunset0.s) ELSE Null]

UnknownWeather ==
    [temperatureC |-> Null, weatherCode |-> Null, sunrise |-> Null, sunset |-> Null]

\* what fetchWeather leaves in the snapshot once the response is in
AfterFetch(d, cancelled, resp) ==
    IF cancelled THEN d
    ELSE IF resp.kind = "json" THEN Snapshot(resp.body)
    ELSE d

\* one run of the effect: with geolocation the position is asked for first,
\* without it fallback() starts the fetch at once
NewAttempt(at, geo) ==
    [at |-> at, stage |-> IF geo THEN "locating" ELSE "fetching",
     cancelled |-> FALSE]

CancelNothing(as) == as

\* the cleanup of the effect
Cancel(as) == {[a EXCEPT !.cancelled = TRUE] : a \in as}

MinuteOf(t) == t \div MsPerMinute

FirstRequest(t) == [minute |-> MinuteOf(t), count |-> 1]
CountRequest(rq, t) ==
    IF rq.minute = MinuteOf(t) THEN [rq EXCEPT !.count = @ + 1]
    ELSE FirstRequest(t)

-----------------------------------------------------------------------------
(* The view *)

TimerNames == {"clock", "battery", "hr"}
Period(n) == IF n = "hr" THEN HrPeriod ELSE IF n = "clock" THEN ClockPeriod ELSE BatteryPeriod

StartTimers(t) == [n \in TimerNames |-> [active |-> TRUE, next |-> t + Period(n)]]
NoTimers == [n \in TimerNames |-> [active |-> FALSE, next |-> 0]]
ClearTimersButBattery(ts) ==
    [n \in TimerNames |-> [ts[n] EXCEPT !.active = (n = "battery" /\ ts[n].active)]]
ClearTimers(ts) == [n \in TimerNames |-> [ts[n] EXCEPT !.active = FALSE]]
Due(n) == timers[n].active /\ time >= timers[n].next
Fired(n) == [timers EXCEPT ![n].next = @ + Period(n)]

NoStorage == [batteryPercent |-> Null, batteryUpdatedAt |-> Null]

\* persisted state a run can start from: nothing, values the decay timer
\* wrote (an hour ago, eleven days ago, a moment ago, an hour ahead of the
\* clock), and text that was not written by the decay timer
InitStorages ==
    { NoStorage,
      Persist(800000, MountTime - 3600000),
      Persist(800000, MountTime - 1000000000),
      Persist(3, MountTime - 1000),
      Persist(999993, MountTime + 3600000),
      [batteryPercent |-> Some(<<"a", "b", "c">>),
       batteryUpdatedAt |-> Some(TimeToString(MountTime - 1000))],
      [batteryPercent |-> Some(<<"8", "0">>),
       batteryUpdatedAt |-> Some(<<"x">>)] }

\* first render of Watchface at time t
Mount(t, st, r) ==
    /\ phase' = "mounted"
    /\ now' = t
    /\ steps' = useSimulatedSteps(t)
    /\ angles' = handAngle(t)
    /\ battery' = InitialBattery(st, t, r)
    /\ hr' = HrStart
    /\ hrSteps' = 0
    /\ data' = UnknownWeather
    /\ attempts' = {NewAttempt(t, hasGeo)}
    /\ requests' = FirstRequest(t)
    /\ lastFetch' = NoResponse
    /\ timers' = StartTimers(t)

Init ==
    /\ hasGeo \in BOOLEAN
    /\ storage \in InitStorages
    /\ time = MountTime
    /\ resets = 0
    /\ phase = "mounted"
    /\ now = time
    /\ steps = useSimulatedSteps(time)
    /\ angles = handAngle(time)
    /\ \E r \in RandomDraws : battery = InitialBattery(storage, time, r)
    /\ hr = HrStart
    /\ hrSteps = 0
    /\ data = UnknownWeather
    /\ attempts = {NewAttempt(time, hasGeo)}
    /\ requests = FirstRequest(time)
    /\ lastFetch = NoResponse
    /\ timers = StartTimers(time)

\* wall-clock time passes; callbacks that are due run first
Advance ==
    /\ time + Quantum <= MountTime + MaxAdvances * Quantum
    /\ \A n \in TimerNames : ~Due(n)
    /\ time' = time + Quantum
    /\ UNCHANGED <<phase, now, steps, angles, battery, storage, hr, hrSteps,
                   data, attempts, requests, lastFetch, timers, hasGeo, resets>>

\* useNow interval: setNow(new Date()); the render recomputes the derived
\* values and re-runs the useWeather effect, whose dependency is now
ClockTick ==
    /\ Due("clock")
    /\ now' = time
    /\ steps' = useSimulatedSteps(time)
    /\ angles' = handAngle(time)
    /\ attempts' = Cancel(attempts) \cup {NewAttempt(time, hasGeo)}
    /\ requests' = CountRequest(requests, time)
    /\ timers' = Fired("clock")
    /\ UNCHANGED <<phase, time, battery, storage, hr, hrSteps, data, lastFetch,
                   hasGeo, resets>>

\* useSimulatedBattery interval
BatteryTick ==
    /\ Due("battery")
    /\ battery' = DecayNext(battery)
    /\ storage' = Persist(battery', time)
    /\ timers' = Fired("battery")
    /\ UNCHANGED <<phase, time, now, steps, angles, hr, hrSteps, data, attempts,
                   requests, lastFetch, hasGeo, resets>>

\* useSimulatedHeartRate interval
HrTick ==
    /\ Due("hr")
    /\ \E r \in RandomDraws : hr' = HeartRateStep(hr, r)
    /\ hrSteps' = hrSteps + 1
    /\ timers' = Fired("hr")
    /\ UNCHANGED <<phase, time, now, steps, angles, battery, storage, data,
                   attempts, requests, lastFetch, hasGeo, resets>>

\* getCurrentPosition calls back, with a position or an error: either way
\* fetchWeather starts
GeoResult ==
    \E a \in attempts :
        /\ a.stage = "locating"
        /\ attempts' = (attempts \ {a}) \cup {[a EXCEPT !.stage = "fetching"]}
        /\ UNCHANGED <<phase, time, now, steps, angles, battery, storage, hr,
                       hrSteps, data, requests, lastFetch, timers, hasGeo, resets>>

\* the fetch of attempt a settles with response resp
FetchDone ==
    \E a \in attempts, resp \in Responses :
        /\ a.stage = "fetching"
        /\ attempts' = attempts \ {a}
        /\ data' = AfterFetch(data, a.cancelled, resp)
        /\ lastFetch' = resp
        /\ UNCHANGED <<phase, time, now, steps, angles, battery, storage, hr,
                       hrSteps, requests, timers, hasGeo, resets>>

\* the view is torn down: every effect's cleanup runs
UnmountLeavesBatteryTimer ==
    /\ phase = "mounted"
    /\ phase' = "unmounted"
    /\ timers' = ClearTimersButBattery(timers)
    /\ attempts' = Cancel(attempts)
    /\ UNCHANGED <<time, now, steps, angles, battery, storage, hr, hrSteps,
                   data, requests, lastFetch, hasGeo, resets>>

Unmount ==
    /\ phase = "mounted"
    /\ phase' = "unmounted"
    /\ timers' = ClearTimers(timers)
    /\ attempts' = Cancel(attempts)
    /\ UNCHANGED <<time, now, steps, angles, battery, storage, hr, hrSteps,
                   data, requests, lastFetch, hasGeo, resets>>

\* the onClick of "Reset Simulated Battery": both keys are removed and the
\* reload is asked for; the page keeps running until it is replaced
Reset ==
    /\ phase = "mounted"
    /\ resets < MaxResets
    /\ resets' = resets + 1
    /\ storage' = NoStorage
    /\ phase' = "reloading"
    /\ UNCHANGED <<time, now, steps, angles, battery, hr, hrSteps, data,
                   attempts, requests, lastFetch, timers, hasGeo>>

\* the reloaded page renders the view anew from what is persisted
Reload ==
    /\ phase = "reloading"
    /\ \E r \in RandomDraws : Mount(time, storage, r)
    /\ UNCHANGED <<time, storage, hasGeo, resets>>

Next ==
    \/ Advance
    \/ ClockTick
    \/ BatteryTick
    \/ HrTick
    \/ GeoResult
    \/ FetchDone
    \/ Unmount
    \/ Reset
    \/ Reload

Spec == Init /\ [][Next]_vars

-----------------------------------------------------------------------------
(* The day walk: the clock and the values derived from it, over MaxDays    *)
(* day rollovers.  A tick may come a second, a minute or an hour after the *)
(* previous one (intervals are throttled while the page is in background). *)

DaySteps == {ClockPeriod, MsPerMinute, MsPerHour}

DayInit ==
    /\ phase = "mounted"
    /\ time = 0
    /\ now = 0
    /\ steps = useSimulatedSteps(0)
    /\ angles = handAngle(0)
    /\ battery = FreshBaseline(500)
    /\ storage = NoStorage
    /\ hr = HrStart
    /\ hrSteps = 0
    /\ data = UnknownWeather
    /\ attempts = {}
    /\ requests = FirstRequest(0)
    /\ lastFetch = NoResponse
    /\ timers = NoTimers
    /\ hasGeo = FALSE
    /\ resets = 0

DayTick ==
    \E d \in DaySteps :
        /\ time + d < (MaxDays + 1) * MsPerDay
        /\ time' = time + d
        /\ now' = time'
        /\ steps' = useSimulatedSteps(time')
        /\ angles' = handAngle(time')
        /\ UNCHANGED <<phase, battery, storage, hr, hrSteps, data, attempts,
                       requests, lastFetch, timers, hasGeo, resets>>

DayNext == DayTick

DaySpec == DayInit /\ [][DayNext]_vars

-----------------------------------------------------------------------------
(* The heart-rate walk: the perturbation step alone, any draws.            *)

HeartInit ==
    /\ phase = "mounted"
    /\ time = MountTime
    /\ now = MountTime
    /\ steps = useSimulatedSteps(MountTime)
    /\ angles = handAngle(MountTime)
    /\ battery = FreshBaseline(500)
    /\ storage = NoStorage
    /\ hr = HrStart
    /\ hrSteps = 0
    /\ data = UnknownWeather
    /\ attempts = {}
    /\ requests = FirstRequest(MountTime)
    /\ lastFetch = NoResponse
    /\ timers = NoTimers
    /\ hasGeo = FALSE
    /\ resets = 0

HrWalk ==
    /\ hrSteps < MaxHrSteps
    /\ \E r \in RandomDraws : hr' = HeartRateStep(hr, r)
    /\ hrSteps' = hrSteps + 1
    /\ UNCHANGED <<phase, time, now, steps, angles, battery, storage, data,
                   attempts, requests, lastFetch, timers, hasGeo, resets>>

HeartNext == HrWalk

HeartSpec == HeartInit /\ [][HeartNext]_vars

-----------------------------------------------------------------------------
(* Properties *)

ValidWeather(d) ==
    d.temperatureC # Null /\ d.weatherCode # Null /\ d.sunrise # Null /\ d.sunset # Null

\* this step is the settling of the fetch of attempt a (and not the reload,
\* which drops the attempts of the page it replaces)
SettlesFetch(a) ==
    /\ a.stage = "fetching"
    /\ attempts' = attempts \ {a}
    /\ phase' = phase
    /\ lastFetch' \in Responses

Settles == \E a \in attempts : SettlesFetch(a)

\* a response that is no usable weather report
FailedResponse(resp) ==
    resp.kind # "json" \/ ~ValidWeather(Snapshot(resp.body))

\* C1: once the snapshot holds valid data, a weather attempt that fails
\* (network error, non-success status, malformed or incomplete payload)
\* leaves every field of the snapshot as it was.
C1_FailureKeepsSnapshot ==
    [][(Settles /\ FailedResponse(lastFetch') /\ ValidWeather(data)) => data' = data]_vars

\* C2: a weather request that completes successfully while the view is
\* mounted replaces the snapshot with the data of its response, however
\* many clock ticks have passed since it was started.
C2_SuccessReplacesSnapshot ==
    [][(Settles /\ phase = "mounted" /\ ~FailedResponse(lastFetch'))
          => data' = Snapshot(lastFetch'.body)]_vars

\* C3: no more than one location/weather request is started for the clock
\* ticks whose Instants fall in one minute.
C3_OneRequestPerMinute == requests.count <= 1

\* C4: the battery percentage is within [0,100] in every reachable state,
\* the initial value computed from the persisted baseline and timestamp
\* included, whatever the elapsed time (here: whenever it is a number at
\* all; text that does not parse is the case of C6).
C4_BatteryInRange == battery # NaN => (0 <= battery /\ battery <= BatteryTop)

FreshValues == {p * Unit : p \in 60..100}

\* C5: the view reloaded after the reset starts from a fresh baseline in
\* [60,100]: at the reload no persisted percentage is left to start from.
C5_ResetStartsFresh ==
    [][(phase = "reloading" /\ phase' = "mounted")
          => (storage.batteryPercent = Null /\ battery' \in FreshValues)]_vars

\* the state right after a mount: no interval has fired yet
JustMounted == phase = "mounted" /\ timers = StartTimers(now)

MissingOrCorrupt(o, parsed) == o = Null \/ parsed = NaN

\* C6: when the persisted percentage or timestamp is missing or does not
\* parse as a number, the initial battery value is a fresh baseline in
\* [60,100], never a non-number.
C6_CorruptTreatedAsAbsent ==
    (/\ JustMounted
     /\ \/ MissingOrCorrupt(storage.batteryPercent,
                            IF storage.batteryPercent = Null THEN NaN
                            ELSE parseFloat(Get(storage.batteryPercent)))
        \/ MissingOrCorrupt(storage.batteryUpdatedAt,
                            IF storage.batteryUpdatedAt = Null THEN NaN
                            ELSE parseInt(Get(storage.batteryUpdatedAt))))
    => battery \in FreshValues

\* C7: within one calendar day the steps count of a later Instant is never
\* below the steps count of an earlier one.
C7_StepsMonotoneWithinDay ==
    [][DayOf(now') = DayOf(now) => steps' >= steps]_vars

\* C8: the heart rate starts at 72 and after any number of perturbation
\* steps is an integer in [58,140].
C8_HeartRateInRange ==
    /\ hr \in HrMin..HrMax
    /\ hrSteps = 0 => hr = HrStart

C8_Witness == hrSteps > 0 /\ hr = HrMax

\* C9: for every Instant the hand angles (tenths of a degree) are
\* hour = (hour mod 12 + minute/60) * 30, minute = (minute + second/60) * 6,
\* second = second * 6, each in [0,360); all three are 0 at 00:00:00 and
\* the hour angle is 180 at 06:00:00.
C9_HandAngles ==
    LET h == (now % MsPerDay) \div MsPerHour
        m == ((now % MsPerHour) \div MsPerMinute)
        sec == ((now % MsPerMinute) \div 1000)
    IN  /\ 2 * angles.hour = ((IF h >= 12 THEN h - 12 ELSE h) * 60 + m) * 10
        /\ 10 * angles.minute = (m * 60 + sec) * 10
        /\ angles.second = sec * 60
        /\ \A k \in {"hour", "minute", "second"} : angles[k] >= 0 /\ angles[k] < 3600
        /\ (h = 0 /\ m = 0 /\ sec = 0) => angles = [hour |-> 0, minute |-> 0, second |-> 0]
        /\ (h = 6 /\ m = 0 /\ sec = 0) => angles.hour = 1800

C9_Witness == now % MsPerDay = 18 * MsPerHour + 30 * MsPerMinute + 15000 /\ angles.hour = 1950

\* C10: after the view is torn down no state of the view changes any more:
\* no interval fires (Instant, battery, persisted keys, heart rate stay) and
\* a geolocation result or weather response does not change the snapshot.
C10_NoUpdateAfterTeardown ==
    [][phase = "unmounted" =>
          /\ phase' = "unmounted"
          /\ UNCHANGED <<now, steps, angles, battery, storage, hr, hrSteps, data>>]_vars

\* torn down before the first tick; since then every interval would have
\* been due and the one weather request got a complete response
C10_Witness ==
    /\ phase = "unmounted"
    /\ resets = 0
    /\ now = MountTime
    /\ hrSteps = 0
    /\ time >= MountTime + HrPeriod
    /\ attempts = {}
    /\ lastFetch = Json(BodyA)
    /\ data = UnknownWeather

\* the runs of the effect whose cancelled flag is not set
Uncancelled == {a \in attempts : ~a.cancelled}

\* C11: weather responses never apply out of order: at any time at most
\* one started attempt is un-cancelled, the one started by the most recent
\* clock tick, and the response of an attempt that a later tick has
\* superseded changes nothing in the snapshot (stated over every step, so
\* over the state before and after it).
\* at most one run is un-cancelled, and it is the run of the latest Instant
OneCurrentAttempt ==
    Cardinality(Uncancelled) <= 1 /\ \A a \in Uncancelled : a.at = now

C11_NoOutOfOrderResponse ==
    [][/\ OneCurrentAttempt
       /\ OneCurrentAttempt'
       /\ \A a \in attempts :
             (SettlesFetch(a) /\ a.at # now) => data' = data]_vars

\* the response of the first attempt arrived after the response of a later
\* one had been written, and was dropped
C11_Witness ==
    /\ phase = "mounted"
    /\ resets = 0
    /\ now > MountTime
    /\ data = Snapshot(BodyB)
    /\ lastFetch = Json(BodyA)

=============================================================================
